---- MODULE Spec2Model ----
(***************************************************************************)
(* IntentBuilder of src/dfcx_scrapi/builders/intent.py as a state machine. *)
(*                                                                         *)
(* State: the builder's proto_obj attribute (absent until load_intent or   *)
(* create_empty_intent assigns it), which of the two assigned it, and a    *)
(* record of the last call: operation, arguments, outcome, and for         *)
(* add_training_phrase the content of the caller's annotations list when   *)
(* the call returns.  `pre` is the builder as it was before that call.     *)
(* A caller of add_training_phrase passes either a new list or the list    *)
(* object it passed to the add_training_phrase call just before.           *)
(*                                                                         *)
(* Python values that are not strings are encoded as marker strings:       *)
(* NonStr is an object for which isinstance(x, str) is False, NoneVal is   *)
(* None.  The Intent is a proto-plus message: a field assigned None keeps  *)
(* its default, and bool(message) is True iff some field is non-default.   *)
(***************************************************************************)
EXTENDS Integers, Sequences, FiniteSets, TLC

VARIABLES has_proto_obj, proto_obj, origin, pre, last

vars == <<has_proto_obj, proto_obj, origin, pre, last>>

(* ---- bounds of the model ---- *)
MaxItems == 2

(* ---- encodings of Python values ---- *)
NonStr == "<non-str>"
NoneVal == "<None>"
DefaultPriority == 500000

IsStr(x) == x # NonStr

Range(s) == {s[i] : i \in 1..Len(s)}

EmptyMap == [k \in {} |-> ""]

(* ---- outcomes of a call ---- *)
Ok == "ok"
AttributeError == "AttributeError: no attribute 'proto_obj'"
NoProtoObj == "ValueError: There is no proto_obj!"
OnlyStrings == "ValueError: Only strings allowed"
TooLong == "IndexError: Length of annotations list is more than phrase list!"
BadLabels == "ValueError: labels should be either a list or a dictionary."
Dangling == "Exception: parameter_id does not exist in parameters."

(* ---- the proto messages ---- *)
ProtoString(v) == IF v = NoneVal THEN "" ELSE v

Part(text, parameter_id) == [text |-> text, parameter_id |-> parameter_id]

TrainingPhrase(parts, repeat_count) ==
    [parts |-> parts, repeat_count |-> repeat_count]

Parameter(id, entity_type, is_list, redact) ==
    [id |-> id, entity_type |-> entity_type, is_list |-> is_list, redact |-> redact]

Intent(name, display_name, priority, is_fallback, description) ==
    [name |-> name,
     display_name |-> ProtoString(display_name),
     training_phrases |-> <<>>,
     parameters |-> <<>>,
     priority |-> priority,
     is_fallback |-> is_fallback,
     labels |-> EmptyMap,
     description |-> ProtoString(description)]

NoIntent == Intent("", "", 0, FALSE, "")

ProtoBool(m) ==
    \/ m.name # ""
    \/ m.display_name # ""
    \/ Len(m.training_phrases) > 0
    \/ Len(m.parameters) > 0
    \/ m.priority # 0
    \/ m.is_fallback
    \/ DOMAIN m.labels # {}
    \/ m.description # ""

(* ---- the inputs the calls are drawn from ---- *)
PhraseInputs == {<<"a">>, <<"a", "b", "c">>, <<"a", NonStr>>}

AnnotationInputs == {<<"city">>, <<"city", "date">>, <<NonStr>>}

RepeatCounts == {1, 2}

ParamInputs ==
    {Parameter("city", "@sys.geo-city", FALSE, FALSE),
     Parameter("date", "@sys.date", TRUE, TRUE)}

CreateArg(display_name, given, priority, is_fallback, description) ==
    [display_name |-> display_name, given |-> given, priority |-> priority,
     is_fallback |-> is_fallback, description |-> description]

CreateInputs ==
    {CreateArg("", {"priority", "description"}, 0, TRUE, NoneVal),
     CreateArg("book", {"is_fallback", "description"}, 7, TRUE, "d"),
     CreateArg("book", {}, 7, TRUE, "d")}

LoadInputs ==
    {NoIntent,
     [Intent("intents/1", "loaded", 0, FALSE, "") EXCEPT
        !.training_phrases =
            <<TrainingPhrase(<<Part("a", "city")>>, 1)>>]}

LabelArg(type, items, dict) ==
    [type |-> type, items |-> items, dict |-> dict]

LabelInputs ==
    {LabelArg("list", <<"vip", "urgent">>, EmptyMap),
     LabelArg("list", <<>>, EmptyMap),
     LabelArg("dict", <<>>, [k \in {"vip"} |-> "1"]),
     LabelArg("dict", <<>>, EmptyMap),
     LabelArg("tuple", <<"vip", "urgent">>, EmptyMap),
     LabelArg("NoneType", <<>>, EmptyMap)}

Truthy(x) ==
    CASE x.type \in {"list", "tuple"} -> Len(x.items) > 0
      [] x.type = "dict" -> DOMAIN x.dict # {}
      [] OTHER -> FALSE

(* ---- the record of the last call ---- *)
NoCall ==
    [op |-> "none", result |-> Ok, ret |-> NoIntent,
     phrase |-> <<>>, annotations |-> <<>>, annotations_out |-> <<>>,
     repeat_count |-> 0, reused |-> FALSE,
     param |-> Parameter("", "", FALSE, FALSE),
     labels |-> LabelArg("NoneType", <<>>, EmptyMap),
     create |-> CreateArg("", {}, 0, FALSE, NoneVal),
     missing |-> ""]

Snapshot == [has |-> has_proto_obj, obj |-> proto_obj]

Init ==
    /\ has_proto_obj = FALSE
    /\ proto_obj = NoIntent
    /\ origin = "none"
    /\ pre = [has |-> FALSE, obj |-> NoIntent]
    /\ last = NoCall

Items(m) == Len(m.training_phrases) + Len(m.parameters)

(* ---- _check_intent_exist ---- *)
CheckIntentExist ==
    IF ~has_proto_obj THEN AttributeError
    ELSE IF ~ProtoBool(proto_obj) THEN NoProtoObj
    ELSE Ok

(* ---- load_intent ---- *)
load_intent(obj) ==
    /\ has_proto_obj' = TRUE
    /\ proto_obj' = obj
    /\ origin' = "load_intent"
    /\ pre' = Snapshot
    /\ last' = [NoCall EXCEPT !.op = "load_intent", !.ret = obj]

(* ---- create_empty_intent ---- *)
(* A create_empty_intent that keeps what the owned Intent accumulated.     *)
EmptyIntentMerged(c) ==
    [proto_obj EXCEPT
        !.display_name = ProtoString(c.display_name),
        !.priority = IF "priority" \in c.given THEN c.priority ELSE DefaultPriority,
        !.is_fallback = IF "is_fallback" \in c.given THEN c.is_fallback ELSE FALSE,
        !.description = ProtoString(IF "description" \in c.given
                                    THEN c.description ELSE NoneVal)]

EmptyIntent(c) ==
    Intent("",
           c.display_name,
           IF "priority" \in c.given THEN c.priority ELSE DefaultPriority,
           IF "is_fallback" \in c.given THEN c.is_fallback ELSE FALSE,
           IF "description" \in c.given THEN c.description ELSE NoneVal)

create_empty_intent(c) ==
    /\ has_proto_obj' = TRUE
    /\ proto_obj' = EmptyIntent(c)
    /\ origin' = "create_empty_intent"
    /\ pre' = Snapshot
    /\ last' = [NoCall EXCEPT !.op = "create_empty_intent", !.create = c,
                              !.ret = EmptyIntent(c)]

(* ---- add_training_phrase ---- *)
AllStrings(phrase, annotations) ==
    /\ \A i \in 1..Len(phrase) : IsStr(phrase[i])
    /\ \A i \in 1..Len(annotations) : IsStr(annotations[i])

TrainingPhraseCheck(phrase, annotations) ==
    IF CheckIntentExist # Ok THEN CheckIntentExist
    ELSE IF ~AllStrings(phrase, annotations) THEN OnlyStrings
    ELSE IF Len(annotations) > Len(phrase) THEN TooLong
    ELSE Ok

Propagate(phrase, annotations) ==
    annotations \o [i \in 1..(Len(phrase) - Len(annotations)) |-> ""]

(* The list padded before the checks have run. *)
AnnotationsAfterEager(phrase, annotations, result) ==
    Propagate(phrase, annotations)

(* The padding done on a copy, the caller's list left alone. *)
AnnotationsAfterCopy(phrase, annotations, result) == annotations

AnnotationsAfter(phrase, annotations, result) ==
    IF result = Ok THEN Propagate(phrase, annotations) ELSE annotations

(* Parts built without their parameter_id. *)
PartsListUnannotated(phrase, annotations) ==
    [i \in 1..Len(phrase) |-> Part(phrase[i], "")]

PartsList(phrase, annotations) ==
    LET n == IF Len(phrase) < Len(annotations) THEN Len(phrase) ELSE Len(annotations)
    IN  [i \in 1..n |-> Part(phrase[i], annotations[i])]

NewTrainingPhrase(phrase, annotations, repeat_count) ==
    TrainingPhrase(PartsList(phrase, Propagate(phrase, annotations)), repeat_count)

AppendTrainingPhrase(training_phrases, tp) == Append(training_phrases, tp)

add_training_phrase(phrase, annotations, reused, repeat_count) ==
    LET result == TrainingPhraseCheck(phrase, annotations)
        tp == NewTrainingPhrase(phrase, annotations, repeat_count)
        obj == IF result = Ok
               THEN [proto_obj EXCEPT
                        !.training_phrases = AppendTrainingPhrase(@, tp)]
               ELSE proto_obj
    IN  /\ result = Ok => Items(proto_obj) < MaxItems
        /\ proto_obj' = obj
        /\ pre' = Snapshot
        /\ last' = [NoCall EXCEPT !.op = "add_training_phrase",
                                  !.result = result,
                                  !.ret = IF result = Ok THEN obj ELSE NoIntent,
                                  !.phrase = phrase,
                                  !.annotations = annotations,
                                  !.annotations_out =
                                      AnnotationsAfter(phrase, annotations, result),
                                  !.repeat_count = repeat_count,
                                  !.reused = reused]
        /\ UNCHANGED <<has_proto_obj, origin>>

(* ---- add_parameter ---- *)
AppendParameter(parameters, p) == Append(parameters, p)

add_parameter(p) ==
    LET result == CheckIntentExist
        obj == IF result = Ok
               THEN [proto_obj EXCEPT !.parameters = AppendParameter(@, p)]
               ELSE proto_obj
    IN  /\ result = Ok => Items(proto_obj) < MaxItems
        /\ proto_obj' = obj
        /\ pre' = Snapshot
        /\ last' = [NoCall EXCEPT !.op = "add_parameter",
                                  !.result = result,
                                  !.ret = IF result = Ok THEN obj ELSE NoIntent,
                                  !.param = p]
        /\ UNCHANGED <<has_proto_obj, origin>>

(* ---- add_label ---- *)
ListAsDict(items) == [k \in Range(items) |-> k]

Update(labels, d) ==
    [k \in (DOMAIN labels) \cup (DOMAIN d) |->
        IF k \in DOMAIN d THEN d[k] ELSE labels[k]]

(* isinstance(labels, (list, tuple)) in place of isinstance(labels, list). *)
LabelCheckAnySequence(labels) ==
    IF CheckIntentExist # Ok THEN CheckIntentExist
    ELSE IF ~Truthy(labels) THEN Ok
    ELSE IF labels.type \in {"list", "tuple"} THEN Ok
    ELSE IF labels.type = "dict" THEN Ok
    ELSE BadLabels

LabelCheck(labels) ==
    IF CheckIntentExist # Ok THEN CheckIntentExist
    ELSE IF ~Truthy(labels) THEN Ok
    ELSE IF labels.type = "list" THEN Ok
    ELSE IF labels.type = "dict" THEN Ok
    ELSE BadLabels

LabelsAfter(old, labels) ==
    IF ~Truthy(labels) THEN old
    ELSE IF labels.type = "list" THEN Update(old, ListAsDict(labels.items))
    ELSE IF labels.type = "dict" THEN Update(old, labels.dict)
    ELSE old

add_label(labels) ==
    LET result == LabelCheck(labels)
        obj == IF result = Ok
               THEN [proto_obj EXCEPT !.labels = LabelsAfter(@, labels)]
               ELSE proto_obj
    IN  /\ proto_obj' = obj
        /\ pre' = Snapshot
        /\ last' = [NoCall EXCEPT !.op = "add_label",
                                  !.result = result,
                                  !.ret = IF result = Ok THEN obj ELSE NoIntent,
                                  !.labels = labels]
        /\ UNCHANGED <<has_proto_obj, origin>>

(* ---- _parameter_checking ---- *)
TpParamsSet(m) ==
    UNION {{tp.parts[i].parameter_id : i \in 1..Len(tp.parts)} :
              tp \in Range(m.training_phrases)}

(* The empty string of the unannotated parts left in the set. *)
AnnotatedIdsWithEmpty(m) == TpParamsSet(m)

AnnotatedIds(m) == TpParamsSet(m) \ {""}

ParametersSet(m) == {param.id : param \in Range(m.parameters)}

parameter_checking_raise(tp_param) ==
    /\ has_proto_obj
    /\ tp_param \notin ParametersSet(proto_obj)
    /\ pre' = Snapshot
    /\ last' = [NoCall EXCEPT !.op = "_parameter_checking",
                              !.result = Dangling,
                              !.missing = tp_param]
    /\ UNCHANGED <<has_proto_obj, proto_obj, origin>>

parameter_checking_pass ==
    /\ \/ ~has_proto_obj
       \/ \A tp_param \in AnnotatedIds(proto_obj) :
             tp_param \in ParametersSet(proto_obj)
    /\ pre' = Snapshot
    /\ last' = [NoCall EXCEPT !.op = "_parameter_checking",
                              !.result = IF has_proto_obj THEN Ok
                                         ELSE AttributeError]
    /\ UNCHANGED <<has_proto_obj, proto_obj, origin>>

parameter_checking ==
    \/ \E tp_param \in AnnotatedIds(proto_obj) : parameter_checking_raise(tp_param)
    \/ parameter_checking_pass

Next ==
    \/ \E obj \in LoadInputs : load_intent(obj)
    \/ \E c \in CreateInputs : create_empty_intent(c)
    \/ \E phrase \in PhraseInputs, repeat_count \in RepeatCounts :
          \/ \E annotations \in AnnotationInputs :
                add_training_phrase(phrase, annotations, FALSE, repeat_count)
          \/ /\ last.op = "add_training_phrase"
             /\ add_training_phrase(phrase, last.annotations_out, TRUE,
                                    repeat_count)
    \/ \E p \in ParamInputs : add_parameter(p)
    \/ \E labels \in LabelInputs : add_label(labels)
    \/ parameter_checking

Spec == Init /\ [][Next]_vars

(***************************************************************************)
(* The claims.                                                             *)
(***************************************************************************)
AddOps == {"add_training_phrase", "add_parameter", "add_label"}

WellFormed(phrase, annotations) ==
    /\ \A i \in 1..Len(phrase) : phrase[i] # NonStr
    /\ \A i \in 1..Len(annotations) : annotations[i] # NonStr
    /\ Len(annotations) <= Len(phrase)

ExpectedPhrase(phrase, annotations, repeat_count) ==
    [parts |-> [i \in 1..Len(phrase) |->
                   [text |-> phrase[i],
                    parameter_id |-> IF i <= Len(annotations)
                                     THEN annotations[i] ELSE ""]],
     repeat_count |-> repeat_count]

(* C1: on a builder on which neither create_empty_intent nor load_intent   *)
(* has been called, add_training_phrase, add_parameter and add_label fail  *)
(* with the ValueError "There is no proto_obj!" of _check_intent_exist,    *)
(* and the builder still owns no Intent.                                   *)
C1_FreshBuilderRaisesNoProtoObj ==
    (~pre.has /\ last.op \in AddOps) =>
        (last.result = NoProtoObj /\ ~has_proto_obj)

(* C2: when an Intent is owned and phrase, annotations are strings with    *)
(* len(annotations) <= len(phrase), add_training_phrase appends exactly    *)
(* one TrainingPhrase with the given repeat_count and parts                *)
(* (phrase[i], annotations[i] or ""), keeping the earlier phrases.         *)
C2_AppendsOnePhrase ==
    (pre.has /\ last.op = "add_training_phrase"
             /\ WellFormed(last.phrase, last.annotations)) =>
        /\ last.result = Ok
        /\ proto_obj.training_phrases =
              pre.obj.training_phrases \o
                 <<ExpectedPhrase(last.phrase, last.annotations, last.repeat_count)>>

(* C2, where the owned Intent has some non-default field: the same         *)
(* statement for the Intents that _check_intent_exist lets through.        *)
C2_AppendsOnePhraseWhenTruthy ==
    (pre.has /\ ProtoBool(pre.obj) /\ last.op = "add_training_phrase"
             /\ WellFormed(last.phrase, last.annotations)) =>
        /\ last.result = Ok
        /\ proto_obj.training_phrases =
              pre.obj.training_phrases \o
                 <<ExpectedPhrase(last.phrase, last.annotations, last.repeat_count)>>
        /\ proto_obj = [pre.obj EXCEPT !.training_phrases = proto_obj.training_phrases]

(* C3: when an Intent is owned, an add_training_phrase call that fails on  *)
(* the length check or on the string check leaves the owned Intent         *)
(* (training_phrases, parameters, labels) as it was and leaves the         *)
(* caller's annotations list unpadded.                                     *)
C3_FailedCallChangesNothing ==
    (pre.has /\ last.op = "add_training_phrase"
             /\ last.result \in {TooLong, OnlyStrings}) =>
        /\ has_proto_obj
        /\ proto_obj = pre.obj
        /\ last.annotations_out = last.annotations

C3_Witness ==
    /\ pre.has
    /\ last.op = "add_training_phrase"
    /\ last.result = OnlyStrings
    /\ Len(last.annotations) < Len(last.phrase)
    /\ Len(pre.obj.training_phrases) > 0
    /\ proto_obj = pre.obj

(* The ids a training phrase part is annotated with and no Parameter of    *)
(* the Intent declares.                                                    *)
DanglingIds(m) ==
    {id \in {"city", "date", NonStr, "a", "b", "c"} :
        /\ \E t \in 1..Len(m.training_phrases) :
              \E i \in 1..Len(m.training_phrases[t].parts) :
                 m.training_phrases[t].parts[i].parameter_id = id
        /\ \A j \in 1..Len(m.parameters) : m.parameters[j].id # id}

HasEmptyPart(m) ==
    \E t \in 1..Len(m.training_phrases) :
       \E i \in 1..Len(m.training_phrases[t].parts) :
          m.training_phrases[t].parts[i].parameter_id = ""

(* C4: for every owned Intent, _parameter_checking raises iff some         *)
(* non-empty parameter_id of a part is the id of no declared Parameter,    *)
(* the id it names is such an id, parts with an empty parameter_id never   *)
(* make it fail, and it does not modify the Intent.                        *)
C4_ParameterChecking ==
    (pre.has /\ last.op = "_parameter_checking") =>
        /\ last.result \in {Ok, Dangling}
        /\ last.result = Dangling <=> DanglingIds(pre.obj) # {}
        /\ last.result = Dangling => last.missing \in DanglingIds(pre.obj)
        /\ has_proto_obj
        /\ proto_obj = pre.obj

C4_Witness ==
    /\ pre.has
    /\ last.op = "_parameter_checking"
    /\ last.result = Ok
    /\ HasEmptyPart(proto_obj)
    /\ \E t \in 1..Len(proto_obj.training_phrases) :
          proto_obj.training_phrases[t].parts[1].parameter_id = "city"
    /\ \E j \in 1..Len(proto_obj.parameters) : proto_obj.parameters[j].id = "city"

(* C5 as stated: in every state reached by create_empty_intent,            *)
(* add_training_phrase, add_parameter and add_label calls, every non-empty *)
(* parameter_id of a part is the id of some Parameter of the owned Intent. *)
C5_ReferencesAlwaysDeclared ==
    (has_proto_obj /\ origin = "create_empty_intent") => DanglingIds(proto_obj) = {}

DeclaredIds(m) == {m.parameters[j].id : j \in 1..Len(m.parameters)}

(* C5 amended: create_empty_intent establishes the invariant, add_parameter *)
(* and add_label preserve it, and a successful add_training_phrase         *)
(* preserves it exactly when every non-empty annotation it is given is the *)
(* id of an already declared Parameter.                                    *)
C5_ReferencesDeclaredWhenAnnotationsAre ==
    /\ last.op = "create_empty_intent" => DanglingIds(proto_obj) = {}
    /\ (pre.has /\ DanglingIds(pre.obj) = {}
           /\ last.op \in {"add_parameter", "add_label"})
          => DanglingIds(proto_obj) = {}
    /\ (pre.has /\ DanglingIds(pre.obj) = {}
           /\ last.op = "add_training_phrase" /\ last.result = Ok)
          => (DanglingIds(proto_obj) = {} <=>
                 \A i \in 1..Len(last.annotations) :
                    last.annotations[i] \in DeclaredIds(pre.obj) \cup {""})

C5_Witness ==
    /\ pre.has
    /\ last.op = "add_training_phrase"
    /\ last.result = Ok
    /\ last.annotations = <<"city">>
    /\ DanglingIds(pre.obj) = {}
    /\ DanglingIds(proto_obj) = {}

(* C6 as stated: after create_empty_intent the owned Intent has empty      *)
(* training_phrases, parameters and labels, and its display_name,          *)
(* priority, is_fallback and description are exactly the values given      *)
(* (500000 and false when priority and is_fallback are omitted).           *)
C6_FieldsStoredVerbatim ==
    last.op = "create_empty_intent" =>
        /\ proto_obj.training_phrases = <<>>
        /\ proto_obj.parameters = <<>>
        /\ DOMAIN proto_obj.labels = {}
        /\ proto_obj.display_name = last.create.display_name
        /\ proto_obj.priority =
              IF "priority" \in last.create.given THEN last.create.priority
              ELSE 500000
        /\ proto_obj.is_fallback =
              IF "is_fallback" \in last.create.given THEN last.create.is_fallback
              ELSE FALSE
        /\ "description" \in last.create.given =>
              proto_obj.description = last.create.description

(* C6 amended: after any sequence of operations, create_empty_intent makes *)
(* the builder own an Intent with empty training_phrases, parameters and   *)
(* labels whose display_name, priority and is_fallback are the given       *)
(* values (500000 and false when omitted) and whose description is the     *)
(* given string, or "" when description is None or omitted; nothing of the *)
(* previously owned Intent is carried over.                                *)
C6_CreateReplaces ==
    last.op = "create_empty_intent" =>
        /\ has_proto_obj
        /\ proto_obj.training_phrases = <<>>
        /\ proto_obj.parameters = <<>>
        /\ DOMAIN proto_obj.labels = {}
        /\ proto_obj.name = ""
        /\ proto_obj.display_name = last.create.display_name
        /\ proto_obj.priority =
              IF "priority" \in last.create.given THEN last.create.priority
              ELSE 500000
        /\ proto_obj.is_fallback =
              IF "is_fallback" \in last.create.given THEN last.create.is_fallback
              ELSE FALSE
        /\ proto_obj.description =
              IF "description" \in last.create.given
                 /\ last.create.description # NoneVal
              THEN last.create.description
              ELSE ""
        /\ last.ret = proto_obj

C6_Witness ==
    /\ last.op = "create_empty_intent"
    /\ pre.has
    /\ Len(pre.obj.training_phrases) > 0
    /\ Len(pre.obj.parameters) > 0
    /\ DOMAIN pre.obj.labels # {}
    /\ "priority" \notin last.create.given
    /\ proto_obj.description = "d"

(* C7: when an Intent is owned, add_label merges into the label mapping:   *)
(* each string s of a non-empty list ends with labels[s] = s, each key k   *)
(* of a non-empty mapping ends with labels[k] = its value (overwriting an  *)
(* earlier value), and every key the call does not mention keeps its       *)
(* value.                                                                  *)
C7_LabelsMerge ==
    (pre.has /\ last.op = "add_label" /\ Truthy(last.labels)
             /\ last.labels.type \in {"list", "dict"}) =>
        LET given == IF last.labels.type = "list"
                     THEN {last.labels.items[i] : i \in 1..Len(last.labels.items)}
                     ELSE DOMAIN last.labels.dict
        IN  /\ last.result = Ok
            /\ DOMAIN proto_obj.labels = DOMAIN pre.obj.labels \cup given
            /\ \A k \in given :
                  proto_obj.labels[k] =
                     IF last.labels.type = "list" THEN k ELSE last.labels.dict[k]
            /\ \A k \in DOMAIN pre.obj.labels \ given :
                  proto_obj.labels[k] = pre.obj.labels[k]

(* C7, where the owned Intent has some non-default field.                  *)
C7_LabelsMergeWhenTruthy ==
    (pre.has /\ ProtoBool(pre.obj)) => C7_LabelsMerge

IsValueError(result) == result \in {NoProtoObj, OnlyStrings, BadLabels}

C10_OwnedIntentPassesCheck ==
    (pre.has /\ last.op \in AddOps) =>
        /\ last.result \notin {NoProtoObj, AttributeError}
        /\ (last.op = "add_parameter"
            \/ (last.op = "add_training_phrase"
                /\ WellFormed(last.phrase, last.annotations)))
              => (last.result = Ok /\ last.ret = proto_obj)

====
